---- MODULE Spec2Model ----
(***************************************************************************)
(* Construction / deconstruction animation of the windmill viewer.         *)
(*                                                                         *)
(* The program state is the one set up in src/src/app.ts, lines 362-401:   *)
(* the flag isConstructed, the meshes of the windmill with their scaling   *)
(* and visibility, and two animation groups (constructGroup and            *)
(* deconstructGroup) of the rendering engine.  Of the engine only what the *)
(* program uses is modelled: a group is started or not, a started group    *)
(* has a current frame in 0..animationDuration, and a group carries the    *)
(* once-only observers added to its onAnimationGroupEndObservable.         *)
(*                                                                         *)
(* Scales are exact rationals: a scale s is held as the integer            *)
(* s * 1000 * animationDuration, so 1 is FullScale and 0.001 is NearZero,  *)
(* and the linear interpolation between the two keys is an integer at      *)
(* every frame.                                                            *)
(*                                                                         *)
(* One Tick is one animation frame of the render loop (the animations run  *)
(* at 60 frames per second, src/src/app.ts:376 and :387).  The engine      *)
(* evaluates a group that was just played at its first frame before        *)
(* anything is rendered; the model folds that evaluation into play.        *)
(*                                                                         *)
(* The module also holds the hex grid utilities, the fan, the camera, the  *)
(* Terrain, the UIControls and the loading sequence of app.ts, each with a *)
(* specification of its own over the same variables: the parts a           *)
(* specification does not operate stay as its initial state leaves them.   *)
(***************************************************************************)
EXTENDS Integers, FiniteSets, Sequences, TLC

\* ------------------------------------------------------------------ bounds
MaxMeshes == 2
MaxObservers == 3
MaxCoord == 2      \* hex coordinates are drawn from -MaxCoord..MaxCoord
MaxSize == 1       \* hex sizes are drawn from -MaxSize..MaxSize
MaxHeight == 1     \* hex heights are drawn from 0..MaxHeight
MaxFanFrames == 3  \* rendered frames and update() calls of the fan
MaxCamValue == 1   \* camera angles, radius and target are drawn from 0..MaxCamValue
MaxCameraY == 1    \* camera.position.y stays within -MaxCameraY..MaxCameraY steps
MaxTiles == 2      \* a terrain is configured with at most MaxTiles coordinates
MaxImported == 2   \* an import gives at most MaxImported meshes
MaxElements == 3   \* elements a UIControls creates
MaxLoadFrames == 1 \* frames rendered between two key presses while loading is followed

\* ------------------------------------------------------- program constants
animationDuration == 60
rotationSpeed == 5 \* 0.005 radians per frame, in thousandths of a radian
SpaceKey == 32     \* key code of the Space key
ShiftKey == 16     \* key code of the Shift key

FullScale == 1000 * animationDuration
NearZero == animationDuration

Groups == {"construct", "deconstruct"}

VARIABLES
    windmillMeshes,  \* the meshes of the windmill: 1..n
    visibility,      \* mesh -> 0 or 1
    scaling,         \* mesh -> uniform scale, in units of 1/FullScale
    isConstructed,   \* the flag of app.ts:363
    isStarted,       \* group -> the group is playing
    currentFrame,    \* group -> frame of the playing group, 0 when stopped
    endObservers,    \* group -> number of once-only end observers registered
    \* history, read by the properties only
    lastOp,          \* the operation that ran last
    prevOp,          \* the operation that ran before lastOp
    fromState,       \* State before lastOp
    fromFrame,       \* frame of the playing group before lastOp, 0 when none played
    stopNotified,    \* end observers invoked by the stop() calls of lastOp
    endNotified,     \* end observers invoked by a run reaching its end in lastOp
    runOp,           \* the operation that started the latest run, or "none"
    runFrom,         \* State in which that operation was called
    runDir,          \* direction of the latest run
    ticks,           \* Tick calls since the latest run started
    runNotified,     \* observers invoked since the latest run started
    origin,          \* settled state a chain of key presses, each run to its end, began in
    parity,          \* completed runs of that chain, modulo 2
    \* the hex grid utilities: arguments and results of the calls made
    hq, hr,          \* axial coordinates of a cell
    hq2, hr2,        \* axial coordinates of a second cell
    hexSize,         \* size argument of getHexPosition
    hexHeight,       \* height argument of getHexPosition
    hexCalled,       \* the utilities called so far
    neighborsResult, \* result of getHexNeighbors(hq, hr)
    distanceResult,  \* result of hexDistance(hq, hr, hq2, hr2)
    positionResult,  \* result of getHexPosition(hq, hr, hexSize, hexHeight)
    \* the fan of app.ts
    fanMesh,         \* a mesh named building_windmill_top_fan_blue was found
    isRotating,      \* the flag of app.ts:311
    fanRotation,     \* rotation applied to the fan mesh so far, thousandths of a radian
    \* a FanRotation controller (Windmill holds the same three fields)
    ctlFanMesh,      \* this.fanMesh is not null
    ctlRotating,     \* this.isRotating
    ctlSpeed,        \* this.rotationSpeed
    ctlRotation,     \* rotation applied by update() so far
    \* history of the fan, read by the properties only
    fanFrames,       \* frames rendered and update() calls so far
    fanOp,           \* the fan operation that ran last
    wasRotating,     \* isRotating before fanOp
    rotatedBy,       \* rotation applied by fanOp to the fan mesh of app.ts
    pressParity,     \* 'R' key presses so far, modulo 2
    ctlWasRotating,  \* ctlRotating before fanOp
    ctlRotatedBy,    \* rotation applied by fanOp through the controller
    ctlBase,         \* ctlRotating as set by the constructor or the last start() or stop()
    ctlParity,       \* toggle() calls since, modulo 2
    \* the camera: that of app.ts or that of a CameraController
    camImpl,         \* "app" or "controller"
    fixedViewConfig, \* the configured fixed view: alpha, beta, radius, target
    camera,          \* alpha, beta, radius, target of the camera
    cameraY,         \* camera.position.y, in steps of 0.1
    isFixedView,     \* the flag of app.ts:65 and of CameraController
    verticalKeys,    \* key code -> the key is held (app.ts:78)
    buttonText,      \* text of the toggle button
    camOp,           \* the camera operation that ran last
    camBase,         \* isFixedView after construction or the last setFixedView(b)
    camParity,       \* toggles since, modulo 2
    camMoved,        \* steps camOp moved the camera up by
    \* a Terrain
    terrainConfig,   \* coordinates, hexSize, hexHeight
    terrainState,    \* "new", then "created" or "rejected" once create() has settled
    importResult,    \* what the import of the hex model gave to create()
    loadedMeshes,    \* what loadModel returned to create()
    createError,     \* name of the error create() rejected with, or "none"
    cloneFailed,     \* indices of the coordinates whose clone came back null
    originalMesh,    \* this.originalMesh is not null
    baseMeshes,      \* the tiles, in creation order
    centralBaseMesh, \* id of the central tile, 0 for null
    \* a UIControls and the document
    instructions,    \* id -> element, the Map of UIControls
    document,        \* the elements attached to document.body
    created,         \* the instruction elements created so far
    elements,        \* the number of elements created so far
    uiOp,            \* the UI operation that ran last
    uiId,            \* its id argument
    uiRemoved,       \* the elements it detached
    uiBefore,        \* the Map and the document before it
    \* loading in app.ts
    hexImport,       \* "pending", "resolved" or "rejected"
    windmillImport,  \* "notStarted", "pending", "resolved" or "rejected"
    tilesCreated,    \* the loop over hexCoords has run
    handlers,        \* the keys with a registered action of the windmill, and "groups"
    caught,          \* the catch of app.ts:506 has run
    ignored,         \* key presses that met no registered action
    viewAtEnd,       \* isFixedView when loading ended
    ticksAtEnd       \* ticks when loading ended

core == <<windmillMeshes, visibility, scaling, isConstructed, isStarted,
          currentFrame, endObservers>>
hist == <<lastOp, prevOp, fromState, fromFrame, stopNotified, endNotified, runOp, runFrom, runDir,
          ticks, runNotified, origin, parity>>
hexVars == <<hq, hr, hq2, hr2, hexSize, hexHeight, hexCalled,
             neighborsResult, distanceResult, positionResult>>
fanCore == <<fanMesh, isRotating, fanRotation>>
ctlCore == <<ctlFanMesh, ctlRotating, ctlSpeed, ctlRotation>>
fanHist == <<fanFrames, fanOp, wasRotating, rotatedBy, pressParity,
             ctlWasRotating, ctlRotatedBy, ctlBase, ctlParity>>
fanVars == <<fanCore, ctlCore, fanHist>>
camCore == <<camImpl, fixedViewConfig, camera, cameraY, isFixedView, verticalKeys, buttonText>>
camHist == <<camOp, camBase, camParity, camMoved>>
camVars == <<camCore, camHist>>
terrVars == <<terrainConfig, terrainState, importResult, loadedMeshes, createError,
              cloneFailed, originalMesh, baseMeshes, centralBaseMesh>>
uiVars == <<instructions, document, created, elements, uiOp, uiId, uiRemoved, uiBefore>>
loadVars == <<hexImport, windmillImport, tilesCreated, handlers, caught, ignored,
              viewAtEnd, ticksAtEnd>>
vars == <<core, hist, hexVars, fanVars, camVars, terrVars, uiVars, loadVars>>

\* ----------------------------------------------------------------- helpers

\* The ConstructionState of the animator, read off the program state.
State ==
    IF isStarted["construct"] THEN "Constructing"
    ELSE IF isStarted["deconstruct"] THEN "Deconstructing"
    ELSE IF isConstructed THEN "Constructed"
    ELSE "Deconstructed"

Settled == State \in {"Constructed", "Deconstructed"}
Animating == ~Settled

\* First and last key of a group's scaling animation.
StartKeyZero(g) == IF g = "construct" THEN 0 ELSE FullScale
StartKey(g) == IF g = "construct" THEN NearZero ELSE FullScale
EndKeyFull(g) == FullScale
EndKey(g) == IF g = "construct" THEN FullScale ELSE NearZero

\* Value of the scaling animation of group g at frame f: linear between the keys.
KeyValueHalfRange(g, f) ==
    StartKey(g) + ((EndKey(g) - StartKey(g)) * f) \div (2 * animationDuration)
KeyValueBlend(g, f) ==
    IF f = 0 THEN scaling[CHOOSE m \in windmillMeshes : TRUE]
    ELSE StartKey(g) + ((EndKey(g) - StartKey(g)) * f) \div animationDuration
KeyValue(g, f) ==
    StartKey(g) + ((EndKey(g) - StartKey(g)) * f) \div animationDuration

\* Every mesh is a target of the same animation of the group: its scale at
\* frame f of group g.
ScaleStaggered(m, g, f) == KeyValue(g, IF f >= m THEN f - (m - 1) ELSE 0)
ScaleAt(m, g, f) == KeyValue(g, f)

\* The run of a group is over once its frame reaches the last key.
RunEndedLate(f) == f > animationDuration
RunEndedNever(f) == FALSE
RunEnded(f) == f >= animationDuration

\* group.stop(): a started group ends, and that notifies its end observers,
\* which are once-only and so leave; a group that is not started is untouched.
StopNotifies(g) == IF isStarted[g] THEN endObservers[g] ELSE 0
ObserversAfterStop(g) == IF isStarted[g] THEN 0 ELSE endObservers[g]

\* The direction the 'C' key starts.
KeyDirectionSame == IF isConstructed THEN "construct" ELSE "deconstruct"
KeyDirection == IF isConstructed THEN "deconstruct" ELSE "construct"

\* mesh.visibility = 1 for every mesh.
HideAll == [m \in windmillMeshes |-> 0]
ShowAll == [m \in windmillMeshes |-> 1]

\* stop() on both groups, then play() on group d: only d is started.
StartedNoStop(d) == [g \in Groups |-> g = d \/ isStarted[g]]
StartedAfterKey(d) == [g \in Groups |-> g = d]

Min(a, b) == IF a < b THEN a ELSE b

\* ---------------------------------------------------------------- hex grid

Abs(x) == IF x < 0 THEN -x ELSE x

\* n / 2 of the code, a floating-point division: the fraction in lowest terms.
Halve(n) ==
    IF n % 2 = 0 THEN [num |-> n \div 2, den |-> 1] ELSE [num |-> n, den |-> 2]

\* hexDistance of hexGrid.ts.
hexDistanceNoSum(q1, r1, q2, r2) == Halve(Abs(q1 - q2) + Abs(r1 - r2))
hexDistanceSignSlip(q1, r1, q2, r2) ==
    Halve(Abs(q1 + q2) + Abs(q1 + r1 - q2 - r2) + Abs(r1 - r2))
hexDistance(q1, r1, q2, r2) ==
    Halve(Abs(q1 - q2) + Abs(q1 + r1 - q2 - r2) + Abs(r1 - r2))

\* getHexNeighbors of hexGrid.ts.
getHexNeighborsSlip(q, r) ==
    << <<q + 1, r>>, <<q + 1, r + 1>>, <<q, r - 1>>,
       <<q - 1, r>>, <<q - 1, r + 1>>, <<q, r + 1>> >>
getHexNeighborsClockwise(q, r) ==
    << <<q + 1, r>>, <<q, r + 1>>, <<q - 1, r + 1>>,
       <<q - 1, r>>, <<q, r - 1>>, <<q + 1, r - 1>> >>
getHexNeighbors(q, r) ==
    << <<q + 1, r>>, <<q + 1, r - 1>>, <<q, r - 1>>,
       <<q - 1, r>>, <<q - 1, r + 1>>, <<q, r + 1>> >>

\* getHexPosition of hexGrid.ts.  x is held in units of sqrt(3)/2 and z in
\* units of 1/2: x = size * (sqrt(3) * q + sqrt(3)/2 * r), z = size * (3/2 * r).
getHexPositionSwapped(q, r, size, height) ==
    [x |-> size * (2 * q + r), y |-> size * (3 * r), z |-> height]
getHexPosition(q, r, size, height) ==
    [x |-> size * (2 * q + r), y |-> height, z |-> size * (3 * r)]

\* DEFAULT_HEX_COORDINATES of hexGrid.ts; hexCoords of app.ts is the same list.
DefaultHexCoordinatesSlip ==
    << <<0, 0>>, <<1, 0>>, <<0, 1>>, <<-1, 1>>, <<-1, 0>>, <<0, -1>>, <<1, -1>>,
       <<2, 0>>, <<2, -1>>, <<2, 2>>, <<1, -2>>, <<0, -2>>, <<-1, -1>>,
       <<-2, 0>>, <<-2, 1>>, <<-2, 2>>, <<-1, 2>>, <<0, 2>>, <<1, 1>> >>
DEFAULT_HEX_COORDINATES ==
    << <<0, 0>>, <<1, 0>>, <<0, 1>>, <<-1, 1>>, <<-1, 0>>, <<0, -1>>, <<1, -1>>,
       <<2, 0>>, <<2, -1>>, <<2, -2>>, <<1, -2>>, <<0, -2>>, <<-1, -1>>,
       <<-2, 0>>, <<-2, 1>>, <<-2, 2>>, <<-1, 2>>, <<0, 2>>, <<1, 1>> >>

\* No utility has been called.
HexNotCalled ==
    /\ hexCalled = {}
    /\ neighborsResult = << >>
    /\ distanceResult = [num |-> 0, den |-> 1]
    /\ positionResult = [x |-> 0, y |-> 0, z |-> 0]

HexIdle ==
    /\ hq = 0 /\ hr = 0 /\ hq2 = 0 /\ hr2 = 0
    /\ hexSize = 0 /\ hexHeight = 0
    /\ HexNotCalled

\* --------------------------------------------------------------------- fan

\* The flag after an 'R' key press: flipped only if a fan mesh was found.
KeyRFlagUnguarded == ~isRotating
KeyRFlag == IF fanMesh THEN ~isRotating ELSE isRotating

\* Rotation a frame applies to the fan mesh of app.ts (animateFan).
FrameRotation == IF isRotating /\ fanMesh THEN rotationSpeed ELSE 0

\* Rotation an update() of the controller applies.
UpdateRotation == IF ctlRotating /\ ctlFanMesh THEN ctlSpeed ELSE 0

\* State after the windmill was loaded and a controller constructed.
FanLoaded ==
    /\ isRotating = TRUE
    /\ fanRotation = 0
    /\ ctlRotating = TRUE
    /\ ctlSpeed = rotationSpeed
    /\ ctlRotation = 0
    /\ fanFrames = 0
    /\ fanOp = "init"
    /\ wasRotating = TRUE
    /\ rotatedBy = 0
    /\ pressParity = 0
    /\ ctlWasRotating = TRUE
    /\ ctlRotatedBy = 0
    /\ ctlBase = TRUE
    /\ ctlParity = 0

FanIdle == fanMesh = FALSE /\ ctlFanMesh = FALSE /\ FanLoaded

\* ------------------------------------------------------------------ camera

\* alpha, beta, radius and target are each held as a number of 0..MaxCamValue;
\* 0 stands for the value app.ts configures for its fixed view, which is also
\* the value it constructs the camera with (app.ts:43 and :67-70).
AppFixedView == [alpha |-> 0, beta |-> 0, radius |-> 0, target |-> 0]

CameraValues ==
    [alpha : 0..MaxCamValue, beta : 0..MaxCamValue,
     radius : 0..MaxCamValue, target : 0..MaxCamValue]

\* The text the toggle button gets for a mode.
ButtonTextSwapped(fixed) ==
    IF fixed THEN "Return to Fixed View" ELSE "Switch to Free View"
ButtonText(fixed) ==
    IF fixed THEN "Switch to Free View" ELSE "Return to Fixed View"

\* The camera after the mode was set: the fixed view resets alpha, beta,
\* radius and target to the configured values, the free view leaves them.
CameraAfterSwitchKeepsTarget(fixed) ==
    IF fixed THEN [fixedViewConfig EXCEPT !.target = camera.target] ELSE camera
CameraAfterSwitch(fixed) == IF fixed THEN fixedViewConfig ELSE camera

\* Steps the before-render callback of app.ts moves the camera up by.
VerticalMoveUnguarded ==
    (IF verticalKeys[SpaceKey] THEN 1 ELSE 0) - (IF verticalKeys[ShiftKey] THEN 1 ELSE 0)
VerticalMove ==
    IF ~isFixedView
    THEN (IF verticalKeys[SpaceKey] THEN 1 ELSE 0) - (IF verticalKeys[ShiftKey] THEN 1 ELSE 0)
    ELSE 0

\* Steps CameraController.moveVertically(deltaY) moves the camera up by.
MoveVerticallyBy(deltaY) == IF ~isFixedView THEN deltaY ELSE 0

NoKeyHeld == [k \in {SpaceKey, ShiftKey} |-> FALSE]

\* The camera of app.ts once createScene has run.
CamIdle ==
    /\ camImpl = "app"
    /\ fixedViewConfig = AppFixedView
    /\ camera = AppFixedView
    /\ cameraY = 0
    /\ isFixedView = TRUE
    /\ verticalKeys = NoKeyHeld
    /\ buttonText = "Toggle Camera View"
    /\ camOp = "init"
    /\ camBase = TRUE
    /\ camParity = 0
    /\ camMoved = 0

\* ----------------------------------------------------------------- terrain

\* The cells a terrain is configured with.
TileCells == {<<0, 0>>, <<1, 0>>, <<0, -1>>, <<-1, 1>>}

\* The name of the clone for (q, r): `hex_${q}_${r}`.
HexName(q, r) == "hex_" \o ToString(q) \o "_" \o ToString(r)

\* loadModel of ModelLoader.ts: the meshes of the import, or ModelLoadError.
loadModelSwallows(import) == [error |-> "none", meshes |-> import.meshes]
loadModel(import) ==
    IF import.ok THEN [error |-> "none", meshes |-> import.meshes]
    ELSE [error |-> "ModelLoadError", meshes |-> << >>]

\* The test of createHexTiles for the central tile.
IsCentralEither(q, r) == q = 0 \/ r = 0
IsCentral(q, r) == q = 0 /\ r = 0

\* The tile cloned for the i-th configured coordinate.
Tile(i) ==
    LET c == terrainConfig.coordinates[i]
    IN  [id |-> i,
         name |-> HexName(c[1], c[2]),
         position |-> getHexPosition(c[1], c[2], terrainConfig.hexSize,
                                     terrainConfig.hexHeight)]

\* createHexTiles: one tile per coordinate whose clone succeeded, in order.
TilesOf(failed) ==
    LET n == Len(terrainConfig.coordinates)
        idx == SelectSeq([i \in 1..n |-> i], LAMBDA i : i \notin failed)
    IN  [k \in 1..Len(idx) |-> Tile(idx[k])]

\* The central tile after createHexTiles: the last clone made for (0, 0).
CentralOf(failed) ==
    LET cs == {i \in 1..Len(terrainConfig.coordinates) :
                  /\ i \notin failed
                  /\ IsCentral(terrainConfig.coordinates[i][1],
                               terrainConfig.coordinates[i][2])}
    IN  IF cs = {} THEN 0 ELSE CHOOSE i \in cs : \A j \in cs : j <= i

\* getHexAt(q, r): the first tile of that name, 0 for null.
getHexAt(q, r) ==
    LET ks == {k \in 1..Len(baseMeshes) : baseMeshes[k].name = HexName(q, r)}
    IN  IF ks = {} THEN 0 ELSE baseMeshes[CHOOSE k \in ks : \A j \in ks : k <= j].id

getCentralMesh == centralBaseMesh
getAllMeshes == baseMeshes

NotImported == [ok |-> FALSE, meshes |-> << >>]

\* A Terrain as its constructor leaves it.
TerrainNew ==
    /\ terrainState = "new"
    /\ importResult = NotImported
    /\ loadedMeshes = << >>
    /\ createError = "none"
    /\ cloneFailed = {}
    /\ originalMesh = FALSE
    /\ baseMeshes = << >>
    /\ centralBaseMesh = 0

TerrIdle ==
    /\ terrainConfig = [coordinates |-> << >>, hexSize |-> 0, hexHeight |-> 0]
    /\ TerrainNew

\* ---------------------------------------------------------------------- UI

UIIds == {"fan", "construct"}

\* The element the Map holds for an id, 0 when it holds none.
NoInstruction == [id \in UIIds |-> 0]

\* The elements the Map holds.
Stored == {instructions[id] : id \in UIIds} \ {0}

\* removeInstruction(id): the element it detaches.
RemovedKeepsOld(id) == {}
Removed(id) == IF instructions[id] # 0 THEN {instructions[id]} ELSE {}

\* A UIControls as its constructor leaves it, in an empty document.
UIIdle ==
    /\ instructions = NoInstruction
    /\ document = {}
    /\ created = {}
    /\ elements = 0
    /\ uiOp = "init"
    /\ uiId = "fan"
    /\ uiRemoved = {}
    /\ uiBefore = [instructions |-> NoInstruction, document |-> {}]

\* ----------------------------------------------------------------- loading

\* What the second then-block of app.ts registers once the windmill is loaded.
WindmillHandlers == {"R", "C", "groups"}

\* The keys with an action of the windmill when createScene returns.
HandlersAtStartAll == {"R", "C"}
HandlersAtStart == {}

\* Loading is over: both imports resolved and everything is set up.
LoadIdle ==
    /\ hexImport = "resolved"
    /\ windmillImport = "resolved"
    /\ tilesCreated = TRUE
    /\ handlers = WindmillHandlers
    /\ caught = FALSE
    /\ ignored = {}
    /\ viewAtEnd = TRUE
    /\ ticksAtEnd = 0

\* -------------------------------------------------------------------- Init

\* No operation of the animator has run.
HistInit ==
    /\ lastOp = "init"
    /\ prevOp = "init"
    /\ fromState = "Constructed"
    /\ fromFrame = 0
    /\ stopNotified = 0
    /\ endNotified = 0
    /\ runOp = "none"
    /\ runFrom = "Constructed"
    /\ runDir = "construct"
    /\ ticks = 0
    /\ runNotified = 0
    /\ origin = "none"
    /\ parity = 0

AnimInit ==
    /\ windmillMeshes \in {1..n : n \in 1..MaxMeshes}
    /\ visibility = [m \in windmillMeshes |-> 1]
    /\ scaling = [m \in windmillMeshes |-> FullScale]
    /\ isConstructed = TRUE
    /\ isStarted = [g \in Groups |-> FALSE]
    /\ currentFrame = [g \in Groups |-> 0]
    /\ endObservers = [g \in Groups |-> 0]
    /\ HistInit

\* The other parts of the program, at rest.
Elsewhere == CamIdle /\ TerrIdle /\ UIIdle /\ LoadIdle

Init == AnimInit /\ HexIdle /\ FanIdle /\ Elsewhere

\* ----------------------------------------------------------------- actions

\* Frame of the group that plays, 0 when none does.
Elapsed == currentFrame["construct"] + currentFrame["deconstruct"]

\* History of any operation op.
Called(op) ==
    /\ UNCHANGED <<hexVars, fanVars, camVars, terrVars, uiVars, loadVars>>
    /\ lastOp' = op
    /\ prevOp' = lastOp
    /\ fromState' = State
    /\ fromFrame' = Elapsed

\* History of an operation op that starts a run in direction d.
StartsRun(op, d) ==
    /\ Called(op)
    /\ endNotified' = 0
    /\ runOp' = op
    /\ runFrom' = State
    /\ runDir' = d
    /\ ticks' = 0
    /\ runNotified' = 0

\* The handler of the 'C' key.
KeyC ==
    LET d == KeyDirection IN
    /\ ObserversAfterStop(d) + 1 <= MaxObservers
    /\ isStarted' = StartedAfterKey(d)
    /\ currentFrame' = [g \in Groups |-> 0]
    /\ endObservers' = [g \in Groups |->
            IF g = d THEN ObserversAfterStop(g) + 1 ELSE ObserversAfterStop(g)]
    /\ visibility' = ShowAll
    /\ scaling' = [m \in windmillMeshes |-> ScaleAt(m, d, 0)]
    /\ isConstructed' = ~isConstructed
    /\ UNCHANGED windmillMeshes
    /\ stopNotified' = StopNotifies("construct") + StopNotifies("deconstruct")
    /\ StartsRun("keyC", d)
    /\ origin' = IF Animating THEN "none"
                 ELSE IF origin = "none" THEN State ELSE origin
    /\ parity' = IF Animating \/ origin = "none" THEN 0 ELSE parity

\* One animation frame of the render loop.
TickStalls ==
    /\ Called("tick")
    /\ stopNotified' = 0
    /\ endNotified' = 0
    /\ ticks' = Min(ticks + 1, animationDuration + 1)
    /\ UNCHANGED <<core, runOp, runFrom, runDir, origin, runNotified, parity>>
TickHidesSettled ==
    /\ Called("tick")
    /\ stopNotified' = 0
    /\ endNotified' = 0
    /\ ticks' = Min(ticks + 1, animationDuration + 1)
    /\ visibility' = IF Settled THEN HideAll ELSE visibility
    /\ UNCHANGED <<windmillMeshes, scaling, isConstructed, isStarted, currentFrame,
                   endObservers, runOp, runFrom, runDir, origin, runNotified, parity>>
Tick ==
    /\ Called("tick")
    /\ stopNotified' = 0
    /\ ticks' = Min(ticks + 1, animationDuration + 1)
    /\ UNCHANGED <<windmillMeshes, visibility, isConstructed, runOp, runFrom, runDir, origin>>
    /\ IF \E g \in Groups : isStarted[g]
       THEN LET g == CHOOSE x \in Groups : isStarted[x]
                f == currentFrame[g] + 1
            IN  /\ scaling' = [m \in windmillMeshes |-> ScaleAt(m, g, f)]
                /\ IF RunEnded(f)
                   THEN /\ isStarted' = [isStarted EXCEPT ![g] = FALSE]
                        /\ currentFrame' = [currentFrame EXCEPT ![g] = 0]
                        /\ endObservers' = [endObservers EXCEPT ![g] = 0]
                        /\ endNotified' = endObservers[g]
                        /\ runNotified' = runNotified + endObservers[g]
                        /\ parity' = IF origin = "none" THEN parity ELSE 1 - parity
                   ELSE /\ currentFrame' = [currentFrame EXCEPT ![g] = f]
                        /\ endNotified' = 0
                        /\ UNCHANGED <<isStarted, endObservers, runNotified, parity>>
       ELSE /\ endNotified' = 0
            /\ UNCHANGED <<scaling, isStarted, currentFrame, endObservers,
                           runNotified, parity>>

\* History of an operation op that starts no run.
StartsNothing(op) ==
    /\ Called(op)
    /\ stopNotified' = 0
    /\ endNotified' = 0
    /\ origin' = "none"
    /\ parity' = 0

\* Cancel whatever runs and start group d at frame 0 with its completion
\* callback: the run of construct() and deconstruct().
Restart(op, d) ==
    /\ isStarted' = [g \in Groups |-> g = d]
    /\ currentFrame' = [g \in Groups |-> 0]
    /\ endObservers' = [g \in Groups |-> IF g = d THEN 1 ELSE 0]
    /\ visibility' = ShowAll
    /\ scaling' = [m \in windmillMeshes |-> ScaleAt(m, d, 0)]
    /\ isConstructed' = (d = "construct")
    /\ UNCHANGED windmillMeshes
    /\ stopNotified' = 0
    /\ StartsRun(op, d)
    /\ origin' = "none"
    /\ parity' = 0

\* An operation called in the settled state it leads to changes nothing.
NoOp(op) ==
    /\ StartsNothing(op)
    /\ UNCHANGED <<core, runOp, runFrom, runDir, ticks, runNotified>>

\* construct(): nothing when Constructed, else restart in the construct direction.
ConstructAlways == Restart("construct", "construct")
Construct ==
    IF State = "Constructed" THEN NoOp("construct")
    ELSE Restart("construct", "construct")

\* deconstruct(): nothing when Deconstructed, else restart in the other direction.
Deconstruct ==
    IF State = "Deconstructed" THEN NoOp("deconstruct")
    ELSE Restart("deconstruct", "deconstruct")

\* reset(): Constructed at once, full scale, visible, nothing running, no callback.
ResetKeepsRun ==
    /\ StartsNothing("reset")
    /\ isConstructed' = TRUE
    /\ endObservers' = [g \in Groups |-> IF isStarted[g] THEN endObservers[g] ELSE 0]
    /\ visibility' = ShowAll
    /\ scaling' = [m \in windmillMeshes |-> FullScale]
    /\ runOp' = IF Animating THEN runOp ELSE "none"
    /\ runNotified' = 0
    /\ UNCHANGED <<windmillMeshes, isStarted, currentFrame, runFrom, runDir, ticks>>
Reset ==
    /\ StartsNothing("reset")
    /\ isConstructed' = TRUE
    /\ isStarted' = [g \in Groups |-> FALSE]
    /\ currentFrame' = [g \in Groups |-> 0]
    /\ endObservers' = [g \in Groups |-> 0]
    /\ visibility' = ShowAll
    /\ scaling' = [m \in windmillMeshes |-> FullScale]
    /\ runOp' = "none"
    /\ ticks' = 0
    /\ runNotified' = 0
    /\ UNCHANGED <<windmillMeshes, runFrom, runDir>>

Next == KeyC \/ Tick \/ Construct \/ Deconstruct \/ Reset

Spec == Init /\ [][Next]_vars

\* The render loop never stops: engine.runRenderLoop renders frame after frame.
LiveSpec == Init /\ [][Next]_vars /\ WF_vars(Tick)

\* ------------------------------------------- the hex grid utilities, called

Coords == (-MaxCoord)..MaxCoord

HexInit ==
    /\ AnimInit
    /\ windmillMeshes = 1..1
    /\ hq \in Coords /\ hr \in Coords /\ hq2 \in Coords /\ hr2 \in Coords
    /\ hexSize \in (-MaxSize)..MaxSize
    /\ hexHeight \in 0..MaxHeight
    /\ HexNotCalled
    /\ FanIdle
    /\ Elsewhere

CallNeighbors ==
    /\ "neighbors" \notin hexCalled
    /\ hexCalled' = hexCalled \cup {"neighbors"}
    /\ neighborsResult' = getHexNeighbors(hq, hr)
    /\ UNCHANGED <<core, hist, fanVars, camVars, terrVars, uiVars, loadVars,
                   hq, hr, hq2, hr2, hexSize, hexHeight,
                   distanceResult, positionResult>>

CallDistance ==
    /\ "distance" \notin hexCalled
    /\ hexCalled' = hexCalled \cup {"distance"}
    /\ distanceResult' = hexDistance(hq, hr, hq2, hr2)
    /\ UNCHANGED <<core, hist, fanVars, camVars, terrVars, uiVars, loadVars,
                   hq, hr, hq2, hr2, hexSize, hexHeight,
                   neighborsResult, positionResult>>

CallPosition ==
    /\ "position" \notin hexCalled
    /\ hexCalled' = hexCalled \cup {"position"}
    /\ positionResult' = getHexPosition(hq, hr, hexSize, hexHeight)
    /\ UNCHANGED <<core, hist, fanVars, camVars, terrVars, uiVars, loadVars,
                   hq, hr, hq2, hr2, hexSize, hexHeight,
                   neighborsResult, distanceResult>>

HexNext == CallNeighbors \/ CallDistance \/ CallPosition

HexSpec == HexInit /\ [][HexNext]_vars

\* ----------------------------------------------------- the fan, operated

FanInit ==
    /\ AnimInit
    /\ windmillMeshes = 1..1
    /\ HexIdle
    /\ fanMesh \in BOOLEAN
    /\ ctlFanMesh \in BOOLEAN
    /\ FanLoaded
    /\ Elsewhere

\* History of a fan operation op.
FanCalled(op) ==
    /\ fanOp' = op
    /\ wasRotating' = isRotating
    /\ ctlWasRotating' = ctlRotating
    /\ UNCHANGED <<core, hist, hexVars, camVars, terrVars, uiVars, loadVars>>

\* History of an operation on the fan of app.ts.
OnApp(op) ==
    /\ FanCalled(op)
    /\ ctlRotatedBy' = 0
    /\ UNCHANGED <<ctlCore, ctlBase, ctlParity>>

\* History of an operation on the controller.
OnCtl(op) ==
    /\ FanCalled(op)
    /\ rotatedBy' = 0
    /\ UNCHANGED <<fanCore, pressParity>>

\* The handler of the 'R' key of app.ts.
KeyR ==
    /\ OnApp("keyR")
    /\ isRotating' = KeyRFlag
    /\ pressParity' = 1 - pressParity
    /\ rotatedBy' = 0
    /\ UNCHANGED <<fanMesh, fanRotation, fanFrames>>

\* A rendered frame: animateFan of app.ts, registered after render.
RenderFan ==
    /\ fanFrames < MaxFanFrames
    /\ OnApp("render")
    /\ fanFrames' = fanFrames + 1
    /\ fanRotation' = fanRotation + FrameRotation
    /\ rotatedBy' = FrameRotation
    /\ UNCHANGED <<fanMesh, isRotating, pressParity>>

\* FanRotation.toggle() and Windmill.toggleFanRotation().
CtlToggle ==
    /\ OnCtl("toggle")
    /\ ctlRotating' = ~ctlRotating
    /\ ctlParity' = 1 - ctlParity
    /\ ctlRotatedBy' = 0
    /\ UNCHANGED <<ctlFanMesh, ctlSpeed, ctlRotation, ctlBase, fanFrames>>

\* FanRotation.start() and stop().
CtlStartStop ==
    \E b \in BOOLEAN :
        /\ OnCtl(IF b THEN "start" ELSE "stop")
        /\ ctlRotating' = b
        /\ ctlBase' = b
        /\ ctlParity' = 0
        /\ ctlRotatedBy' = 0
        /\ UNCHANGED <<ctlFanMesh, ctlSpeed, ctlRotation, fanFrames>>

\* FanRotation.setSpeed(speed).
CtlSetSpeed ==
    \E v \in {rotationSpeed, 2 * rotationSpeed} :
        /\ OnCtl("setSpeed")
        /\ ctlSpeed' = v
        /\ ctlRotatedBy' = 0
        /\ UNCHANGED <<ctlFanMesh, ctlRotating, ctlRotation, ctlBase, ctlParity, fanFrames>>

\* FanRotation.setFanMesh(mesh) and dispose().
CtlSetMesh ==
    \E b \in BOOLEAN :
        /\ OnCtl(IF b THEN "setFanMesh" ELSE "dispose")
        /\ ctlFanMesh' = b
        /\ ctlRotatedBy' = 0
        /\ UNCHANGED <<ctlRotating, ctlSpeed, ctlRotation, ctlBase, ctlParity, fanFrames>>

\* FanRotation.update() and Windmill.update(), called each frame.
CtlUpdate ==
    /\ fanFrames < MaxFanFrames
    /\ OnCtl("update")
    /\ fanFrames' = fanFrames + 1
    /\ ctlRotation' = ctlRotation + UpdateRotation
    /\ ctlRotatedBy' = UpdateRotation
    /\ UNCHANGED <<ctlFanMesh, ctlRotating, ctlSpeed, ctlBase, ctlParity>>

FanNext ==
    KeyR \/ RenderFan \/ CtlToggle \/ CtlStartStop \/ CtlSetSpeed \/ CtlSetMesh \/ CtlUpdate

FanSpec == FanInit /\ [][FanNext]_vars

\* -------------------------------------------------- the camera, operated

\* The camera of app.ts once createScene has run, or a CameraController once
\* its constructor has: setFixedView(true), then createToggleButton().
CamInit ==
    /\ AnimInit
    /\ windmillMeshes = 1..1
    /\ HexIdle /\ FanIdle /\ TerrIdle /\ UIIdle /\ LoadIdle
    /\ camImpl \in {"app", "controller"}
    /\ fixedViewConfig \in
          IF camImpl = "app" THEN {AppFixedView}
          ELSE {[alpha |-> v, beta |-> v, radius |-> v, target |-> v] : v \in 0..MaxCamValue}
    /\ camera = fixedViewConfig
    /\ cameraY = 0
    /\ isFixedView = TRUE
    /\ verticalKeys = NoKeyHeld
    /\ buttonText = IF camImpl = "app" THEN "Toggle Camera View" ELSE ButtonText(TRUE)
    /\ camOp = "init"
    /\ camBase = TRUE
    /\ camParity = 0
    /\ camMoved = 0

\* History of a camera operation op.
CamCalled(op) ==
    /\ camOp' = op
    /\ UNCHANGED <<core, hist, hexVars, fanVars, terrVars, uiVars, loadVars,
                   camImpl, fixedViewConfig>>

\* The click handler of the toggle button of app.ts.
ToggleCamera ==
    /\ camImpl = "app"
    /\ CamCalled("toggle")
    /\ isFixedView' = ~isFixedView
    /\ camera' = CameraAfterSwitch(~isFixedView)
    /\ buttonText' = IF ~isFixedView THEN "Switch to Free View" ELSE "Return to Fixed View"
    /\ camParity' = 1 - camParity
    /\ camMoved' = 0
    /\ UNCHANGED <<cameraY, verticalKeys, camBase>>

\* The key-down and key-up actions of Space and Shift of app.ts.
VerticalKey ==
    \E k \in {SpaceKey, ShiftKey}, held \in BOOLEAN :
        /\ camImpl = "app"
        /\ CamCalled("key")
        /\ verticalKeys' = [verticalKeys EXCEPT ![k] = held]
        /\ camMoved' = 0
        /\ UNCHANGED <<camera, cameraY, isFixedView, buttonText, camBase, camParity>>

\* The before-render callback of app.ts, once a frame.
BeforeRender ==
    /\ camImpl = "app"
    /\ cameraY + VerticalMove \in (-MaxCameraY)..MaxCameraY
    /\ CamCalled("beforeRender")
    /\ cameraY' = cameraY + VerticalMove
    /\ camMoved' = VerticalMove
    /\ UNCHANGED <<camera, isFixedView, verticalKeys, buttonText, camBase, camParity>>

\* CameraController.setFixedView(fixed).
SetFixedView ==
    \E fixed \in BOOLEAN :
        /\ camImpl = "controller"
        /\ CamCalled("setFixedView")
        /\ isFixedView' = fixed
        /\ camera' = CameraAfterSwitch(fixed)
        /\ buttonText' = ButtonText(fixed)
        /\ camBase' = fixed
        /\ camParity' = 0
        /\ camMoved' = 0
        /\ UNCHANGED <<cameraY, verticalKeys>>

\* CameraController.toggleView(), also the click handler of its button.
ToggleView ==
    /\ camImpl = "controller"
    /\ CamCalled("toggleView")
    /\ isFixedView' = ~isFixedView
    /\ camera' = CameraAfterSwitch(~isFixedView)
    /\ buttonText' = ButtonText(~isFixedView)
    /\ camParity' = 1 - camParity
    /\ camMoved' = 0
    /\ UNCHANGED <<cameraY, verticalKeys, camBase>>

\* CameraController.moveVertically(deltaY).
MoveVertically ==
    \E deltaY \in {-1, 1} :
        /\ camImpl = "controller"
        /\ cameraY + MoveVerticallyBy(deltaY) \in (-MaxCameraY)..MaxCameraY
        /\ CamCalled("moveVertically")
        /\ cameraY' = cameraY + MoveVerticallyBy(deltaY)
        /\ camMoved' = MoveVerticallyBy(deltaY)
        /\ UNCHANGED <<camera, isFixedView, verticalKeys, buttonText, camBase, camParity>>

\* The user orbits, zooms or pans: both branches of the switch call
\* camera.attachControl, so the inputs of the camera are attached in either mode.
Navigate ==
    \E c \in CameraValues :
        /\ c # camera
        /\ CamCalled("navigate")
        /\ camera' = c
        /\ camMoved' = 0
        /\ UNCHANGED <<cameraY, isFixedView, verticalKeys, buttonText, camBase, camParity>>

CamNext ==
    \/ ToggleCamera \/ VerticalKey \/ BeforeRender
    \/ SetFixedView \/ ToggleView \/ MoveVertically
    \/ Navigate

CamSpec == CamInit /\ [][CamNext]_vars

\* ------------------------------------------------- a Terrain, created

\* What an import can give: a failure, or a list of meshes.
Imports ==
    {NotImported} \cup {[ok |-> TRUE, meshes |-> [i \in 1..n |-> i]] : n \in 0..MaxImported}

TerrainInit ==
    /\ AnimInit
    /\ windmillMeshes = 1..1
    /\ HexIdle /\ FanIdle /\ CamIdle /\ UIIdle /\ LoadIdle
    /\ terrainConfig \in
          [coordinates : UNION {[1..n -> TileCells] : n \in 0..MaxTiles},
           hexSize : (-MaxSize)..MaxSize,
           hexHeight : 0..MaxHeight]
    /\ TerrainNew

\* create() rejects with the error named e; nothing else of the terrain changes.
Rejects(e) ==
    /\ terrainState' = "rejected"
    /\ createError' = e
    /\ cloneFailed' = {}
    /\ UNCHANGED <<originalMesh, baseMeshes, centralBaseMesh>>

\* Terrain.create(), called once on a Terrain, with createHexTiles(): the
\* outcome of the import and the clones that fail are its inputs.
Create ==
    \E import \in Imports, failed \in SUBSET (1..Len(terrainConfig.coordinates)) :
        LET res == loadModel(import) IN
        /\ terrainState = "new"
        /\ importResult' = import
        /\ loadedMeshes' = res.meshes
        /\ UNCHANGED <<core, hist, hexVars, fanVars, camVars, uiVars, loadVars, terrainConfig>>
        /\ IF res.error # "none"
           THEN failed = {} /\ Rejects(res.error)
           ELSE IF Len(res.meshes) = 0
           THEN failed = {} /\ Rejects("Error")
           ELSE /\ terrainState' = "created"
                /\ createError' = "none"
                /\ cloneFailed' = failed
                /\ originalMesh' = TRUE
                /\ baseMeshes' = baseMeshes \o TilesOf(failed)
                /\ centralBaseMesh' =
                      IF CentralOf(failed) # 0 THEN CentralOf(failed) ELSE centralBaseMesh

\* Terrain.dispose(): the meshes are disposed of, the fields keep their values.
DisposeTerrain ==
    /\ terrainState \in {"created", "rejected"}
    /\ terrainState' = IF terrainState = "created" THEN "createdDisposed" ELSE "rejectedDisposed"
    /\ UNCHANGED <<core, hist, hexVars, fanVars, camVars, uiVars, loadVars, terrainConfig,
                   importResult, loadedMeshes, createError, cloneFailed, originalMesh,
                   baseMeshes, centralBaseMesh>>

TerrainNext == Create \/ DisposeTerrain

TerrainSpec == TerrainInit /\ [][TerrainNext]_vars

\* --------------------------------------------------- a UIControls, operated

UIInit ==
    /\ AnimInit
    /\ windmillMeshes = 1..1
    /\ HexIdle /\ FanIdle /\ CamIdle /\ TerrIdle /\ LoadIdle
    /\ UIIdle

\* History of a UI operation op on id.
UICalled(op, id) ==
    /\ uiOp' = op
    /\ uiId' = id
    /\ uiBefore' = [instructions |-> instructions, document |-> document]
    /\ UNCHANGED <<core, hist, hexVars, fanVars, camVars, terrVars, loadVars>>

\* addInstruction(id, instruction).
AddInstruction ==
    \E id \in UIIds :
        LET e == elements + 1 IN
        /\ elements < MaxElements
        /\ UICalled("add", id)
        /\ uiRemoved' = Removed(id)
        /\ instructions' = [instructions EXCEPT ![id] = e]
        /\ document' = (document \ Removed(id)) \cup {e}
        /\ created' = created \cup {e}
        /\ elements' = e

\* removeInstruction(id).
RemoveInstruction ==
    \E id \in UIIds :
        /\ UICalled("remove", id)
        /\ uiRemoved' = Removed(id)
        /\ instructions' = [instructions EXCEPT ![id] = 0]
        /\ document' = document \ Removed(id)
        /\ UNCHANGED <<created, elements>>

\* dispose().
DisposeUI ==
    /\ UICalled("dispose", uiId)
    /\ uiRemoved' = Stored
    /\ instructions' = NoInstruction
    /\ document' = document \ Stored
    /\ UNCHANGED <<created, elements>>

\* showLoading(message): an element of the document that is no instruction.
ShowLoading ==
    /\ elements < MaxElements
    /\ UICalled("showLoading", uiId)
    /\ uiRemoved' = {}
    /\ document' = document \cup {elements + 1}
    /\ elements' = elements + 1
    /\ UNCHANGED <<instructions, created>>

\* The function showLoading returned, called: its element leaves the document.
HideLoading ==
    \E e \in (1..elements) \ created :
        /\ UICalled("hideLoading", uiId)
        /\ uiRemoved' = {e} \cap document
        /\ document' = document \ {e}
        /\ UNCHANGED <<instructions, created, elements>>

UINext == AddInstruction \/ RemoveInstruction \/ DisposeUI \/ ShowLoading \/ HideLoading

UISpec == UIInit /\ [][UINext]_vars

\* ------------------------------------------------- app.ts, while it loads

\* createScene has returned: the camera, its button and the vertical keys
\* are set up, the import of the hex tile is pending, no windmill exists.
LoadInit ==
    /\ windmillMeshes = {}
    /\ visibility = [m \in {} |-> 1]
    /\ scaling = [m \in {} |-> FullScale]
    /\ isConstructed = TRUE
    /\ isStarted = [g \in Groups |-> FALSE]
    /\ currentFrame = [g \in Groups |-> 0]
    /\ endObservers = [g \in Groups |-> 0]
    /\ HistInit
    /\ HexIdle /\ FanIdle /\ CamIdle /\ TerrIdle /\ UIIdle
    /\ hexImport = "pending"
    /\ windmillImport = "notStarted"
    /\ tilesCreated = FALSE
    /\ handlers = HandlersAtStart
    /\ caught = FALSE
    /\ ignored = {}
    /\ viewAtEnd = TRUE
    /\ ticksAtEnd = 0

\* Loading ends here: what the camera and the render loop were at.
LoadingEnds ==
    /\ viewAtEnd' = isFixedView
    /\ ticksAtEnd' = ticks
    /\ UNCHANGED <<hist, hexVars, camVars, terrVars, uiVars, ignored>>

\* The promise chain is rejected: the catch of app.ts:506 logs the error.
Caught ==
    /\ caught' = TRUE
    /\ LoadingEnds
    /\ UNCHANGED <<core, fanVars, handlers>>

\* The import of the hex tile fails.
HexImportRejects ==
    /\ hexImport = "pending"
    /\ hexImport' = "rejected"
    /\ Caught
    /\ UNCHANGED <<windmillImport, tilesCreated>>

\* The import of the hex tile gives no mesh: baseResult.meshes[0] is
\* undefined and the first then-block throws before any tile is cloned.
HexImportEmpty ==
    /\ hexImport = "pending"
    /\ hexImport' = "resolved"
    /\ Caught
    /\ UNCHANGED <<windmillImport, tilesCreated>>

\* The first then-block: the tiles are cloned, then the windmill import starts.
HexImportResolves ==
    /\ hexImport = "pending"
    /\ hexImport' = "resolved"
    /\ tilesCreated' = TRUE
    /\ windmillImport' = "pending"
    /\ UNCHANGED <<core, hist, hexVars, fanVars, camVars, terrVars, uiVars,
                   handlers, caught, ignored, viewAtEnd, ticksAtEnd>>

\* The import of the windmill fails.
WindmillImportRejects ==
    /\ windmillImport = "pending"
    /\ windmillImport' = "rejected"
    /\ Caught
    /\ UNCHANGED <<hexImport, tilesCreated>>

\* The import of the windmill gives no mesh: result.meshes[0] is undefined
\* and the second then-block throws at windmillRoot.getChildMeshes.
WindmillImportEmpty ==
    /\ windmillImport = "pending"
    /\ windmillImport' = "resolved"
    /\ Caught
    /\ UNCHANGED <<hexImport, tilesCreated>>

\* The second then-block: the meshes, the fan, the animation groups and the
\* actions of the 'R' and 'C' keys.
WindmillImportResolves ==
    /\ windmillImport = "pending"
    /\ windmillImport' = "resolved"
    /\ windmillMeshes' \in {1..n : n \in 1..MaxMeshes}
    /\ visibility' = [m \in windmillMeshes' |-> 1]
    /\ scaling' = [m \in windmillMeshes' |-> FullScale]
    /\ isConstructed' = TRUE
    /\ isStarted' = [g \in Groups |-> FALSE]
    /\ currentFrame' = [g \in Groups |-> 0]
    /\ endObservers' = [g \in Groups |-> 0]
    /\ fanMesh' \in BOOLEAN
    /\ isRotating' = TRUE
    /\ handlers' = handlers \cup WindmillHandlers
    /\ LoadingEnds
    /\ UNCHANGED <<fanRotation, ctlCore, fanHist, hexImport, tilesCreated, caught>>

\* A key press that meets no registered action.
Ignored(k) ==
    /\ ignored' = ignored \cup {k}
    /\ UNCHANGED <<core, hist, hexVars, fanVars, camVars, terrVars, uiVars,
                   hexImport, windmillImport, tilesCreated, handlers, caught,
                   viewAtEnd, ticksAtEnd>>

\* The 'C' key is pressed.
PressC == IF "C" \in handlers THEN KeyC ELSE Ignored("C")

\* The 'R' key is pressed.
PressR == IF "R" \in handlers THEN KeyR ELSE Ignored("R")

\* A frame of the render loop, which runs from the start (app.ts:517).
LoadRender == ticks < MaxLoadFrames /\ Tick

LoadNext ==
    \/ HexImportRejects \/ HexImportEmpty \/ HexImportResolves
    \/ WindmillImportRejects \/ WindmillImportEmpty \/ WindmillImportResolves
    \/ PressC \/ PressR \/ LoadRender
    \/ ToggleCamera \/ VerticalKey

LoadSpec == LoadInit /\ [][LoadNext]_vars

\* ------------------------------------------------------------- properties

AllScaled(v) == \A m \in windmillMeshes : scaling[m] = v
AllVisible == \A m \in windmillMeshes : visibility[m] = 1
StartOps == {"keyC", "construct", "deconstruct"}

\* A run in direction d, started from settled state s, has had exactly
\* animationDuration ticks and no other call since.
FullRun(d, s) ==
    /\ runOp \in StartOps
    /\ runDir = d
    /\ runFrom = s
    /\ lastOp = "tick"
    /\ ticks = animationDuration

\* C1: from Deconstructed, a construct run followed by exactly
\* animationDuration ticks and no other call leaves every mesh at scale 1,
\* the state Constructed, and the completion callback invoked exactly once.
C1_ConstructRoundTrip ==
    FullRun("construct", "Deconstructed") =>
        /\ AllScaled(FullScale)
        /\ State = "Constructed"
        /\ runNotified = 1
        /\ endNotified = 1

C1_Witness ==
    /\ FullRun("construct", "Deconstructed")
    /\ runOp = "keyC"
    /\ State = "Constructed"

\* C2: from Constructed, a deconstruct run followed by exactly
\* animationDuration ticks and no other call leaves every mesh at scale
\* 0.001, the state Deconstructed, and the callback invoked exactly once.
C2_DeconstructRoundTrip ==
    FullRun("deconstruct", "Constructed") =>
        /\ AllScaled(NearZero)
        /\ State = "Deconstructed"
        /\ runNotified = 1
        /\ endNotified = 1

C2_Witness ==
    /\ FullRun("deconstruct", "Constructed")
    /\ runOp = "keyC"
    /\ State = "Deconstructed"
    /\ AllScaled(NearZero)

\* C3: the completion callback is invoked exactly once per completed run: at
\* the tick that completes a run and at no other time, in particular never
\* when a call interrupts a run.
C3_CallbackOncePerCompletedRun ==
    /\ stopNotified = 0
    /\ endNotified =
          IF lastOp = "tick" /\ fromState \in {"Constructing", "Deconstructing"} /\ Settled
          THEN 1 ELSE 0

\* C4: a deconstruct started while a construct run is at any frame yields a
\* deconstruct run at frame 0 with every mesh at the deconstruct start key 1,
\* whatever the scale was; and symmetrically for a construct started during
\* a deconstruct run, with every mesh at 0.001.
C4_InterruptionRestarts ==
    /\ (lastOp \in {"keyC", "deconstruct"} /\ fromState = "Constructing") =>
          /\ State = "Deconstructing"
          /\ Elapsed = 0
          /\ AllScaled(FullScale)
    /\ (lastOp \in {"keyC", "construct"} /\ fromState = "Deconstructing") =>
          /\ State = "Constructing"
          /\ Elapsed = 0
          /\ AllScaled(NearZero)

C4_Witness ==
    /\ lastOp = "keyC"
    /\ fromState = "Constructing"
    /\ fromFrame = 30
    /\ State = "Deconstructing"
    /\ AllScaled(FullScale)

\* C5: construct() called while Constructed, and deconstruct() called while
\* Deconstructed, change nothing: not the state, not a scale, a visibility
\* or a frame, not the registered callbacks; they start no run and invoke no
\* callback.
C5_IdempotentWhenSettled ==
    [][ /\ (lastOp' = "construct" /\ State = "Constructed") =>
              (UNCHANGED core /\ stopNotified' = 0 /\ endNotified' = 0)
        /\ (lastOp' = "deconstruct" /\ State = "Deconstructed") =>
              (UNCHANGED core /\ stopNotified' = 0 /\ endNotified' = 0) ]_vars

C5_Witness ==
    /\ lastOp = "construct"
    /\ prevOp = "construct"
    /\ fromState = "Constructed"
    /\ State = "Constructed"

\* C6: the 'C' key in a settled state starts the opposite run at frame 0:
\* from Constructed a deconstruct run, from Deconstructed a construct run;
\* and after a chain of key presses, each in a settled state and each run to
\* its end, the settled state is the one the chain began in when the number
\* of completed runs is even, and the other one when it is odd.
C6_ToggleSettled ==
    /\ (lastOp = "keyC" /\ fromState = "Constructed") =>
          (State = "Deconstructing" /\ Elapsed = 0)
    /\ (lastOp = "keyC" /\ fromState = "Deconstructed") =>
          (State = "Constructing" /\ Elapsed = 0)
    /\ (origin # "none" /\ Settled) =>
          State = (IF parity = 0 THEN origin
                   ELSE IF origin = "Constructed" THEN "Deconstructed"
                   ELSE "Constructed")

C6_Witness ==
    /\ origin = "Deconstructed"
    /\ parity = 0
    /\ lastOp = "tick"
    /\ fromState = "Deconstructing"
    /\ State = "Deconstructed"

\* C7: the 'C' key during a run at any frame stops that run and starts the
\* opposite one at frame 0, so that only the opposite group plays; and a run
\* started by the key that reaches its end settles in the state of its own
\* direction, the direction of the last key press.
C7_ToggleAnimating ==
    /\ (lastOp = "keyC" /\ fromState = "Constructing") =>
          /\ isStarted["deconstruct"] /\ ~isStarted["construct"]
          /\ Elapsed = 0
    /\ (lastOp = "keyC" /\ fromState = "Deconstructing") =>
          /\ isStarted["construct"] /\ ~isStarted["deconstruct"]
          /\ Elapsed = 0
    /\ (runOp = "keyC" /\ lastOp = "tick" /\ fromState # State) =>
          /\ fromState = (IF runDir = "construct" THEN "Constructing" ELSE "Deconstructing")
          /\ State = (IF runDir = "construct" THEN "Constructed" ELSE "Deconstructed")

\* Two key presses in a row from Constructed: a construct run at frame 0.
C7_Witness ==
    /\ lastOp = "keyC"
    /\ prevOp = "keyC"
    /\ fromState = "Deconstructing"
    /\ fromFrame = 0
    /\ runFrom = "Deconstructing"
    /\ State = "Constructing"
    /\ Elapsed = 0

\* C8: while a run plays, its frame is an integer in 0..animationDuration;
\* it is 0 right after every call that starts a run.
C8_ElapsedInRange ==
    /\ \A g \in Groups : currentFrame[g] \in 0..animationDuration
    /\ (lastOp \in StartOps /\ Animating) => Elapsed = 0

C8_Witness ==
    /\ Animating
    /\ Elapsed = animationDuration - 1
    /\ lastOp = "tick"

\* C9: reset() in any state gives Constructed with every mesh at scale 1 and
\* visible and nothing playing, invokes no callback, and no tick invokes one
\* until a run is started.
C9_Reset ==
    /\ lastOp = "reset" =>
          /\ State = "Constructed"
          /\ AllScaled(FullScale)
          /\ AllVisible
          /\ stopNotified = 0 /\ endNotified = 0
    /\ runOp = "none" =>
          /\ Settled
          /\ stopNotified = 0 /\ endNotified = 0

C9_Witness ==
    /\ lastOp = "tick"
    /\ prevOp = "reset"
    /\ runOp = "none"
    /\ runDir = "deconstruct"
    /\ runFrom = "Constructing"
    /\ State = "Constructed"

\* C10: every call that starts a run leaves every mesh visible, and every
\* mesh is visible in every reachable state, Deconstructed included.
C10_AlwaysVisible == AllVisible

C10_Witness ==
    /\ State = "Deconstructed"
    /\ runOp = "keyC"
    /\ AllVisible

\* A run in direction d, started from settled state s, has had exactly n
\* ticks and no other call since.
RunAt(d, s, n) ==
    /\ runOp \in StartOps
    /\ runDir = d
    /\ runFrom = s
    /\ lastOp = "tick"
    /\ ticks = n

HalfWay == animationDuration \div 2

\* C11 as stated: from Constructed, a deconstruct run followed by exactly 30
\* ticks leaves each mesh at a scale of about 0.7503 (within 0.001 of it).
C11_MidpointAsStated ==
    RunAt("deconstruct", "Constructed", HalfWay) =>
        \A m \in windmillMeshes :
            /\ 7493 * FullScale <= 10000 * scaling[m]
            /\ 10000 * scaling[m] <= 7513 * FullScale

\* C11 amended: from Constructed, a deconstruct run followed by exactly 30
\* ticks leaves each mesh at scale 1 - 0.999 * (30/60) = 0.5005, the linear
\* interpolation from 1 to 0.001 at t = 0.5.
C11_MidpointLinear ==
    RunAt("deconstruct", "Constructed", HalfWay) =>
        \A m \in windmillMeshes : 10000 * scaling[m] = 5005 * FullScale

C11_Witness ==
    /\ RunAt("deconstruct", "Constructed", HalfWay)
    /\ runOp = "keyC"
    /\ State = "Deconstructing"
    /\ Elapsed = HalfWay

\* C19: all meshes follow one timeline, so in every reachable state they
\* all have the same scale; and the timeline does not loop: a tick in a
\* settled state leaves the state settled, nothing playing and every scale
\* as it was at the end of the run.
C19_OneTimelineNoLoop ==
    /\ \A m1, m2 \in windmillMeshes : scaling[m1] = scaling[m2]
    /\ (lastOp = "tick" /\ fromState \in {"Constructed", "Deconstructed"}) =>
          /\ State = fromState
          /\ Elapsed = 0
          /\ AllScaled(IF State = "Constructed" THEN FullScale ELSE NearZero)

C19_Witness ==
    /\ Cardinality(windmillMeshes) >= 2
    /\ lastOp = "tick"
    /\ prevOp = "tick"
    /\ fromState = "Deconstructed"
    /\ State = "Deconstructed"
    /\ ticks = animationDuration + 1

\* C14: getHexNeighbors(q, r) returns exactly 6 coordinates, pairwise
\* distinct, each at hexDistance exactly 1 from (q, r).
C14_SixNeighborsAtDistanceOne ==
    "neighbors" \in hexCalled =>
        /\ Len(neighborsResult) = 6
        /\ \A i, j \in 1..Len(neighborsResult) :
              i # j => neighborsResult[i] # neighborsResult[j]
        /\ \A i \in 1..Len(neighborsResult) :
              hexDistance(hq, hr, neighborsResult[i][1], neighborsResult[i][2])
                  = [num |-> 1, den |-> 1]

C14_Witness ==
    /\ "neighbors" \in hexCalled
    /\ hq = -MaxCoord
    /\ hr = 1
    /\ Len(neighborsResult) = 6

\* C15: getHexNeighbors(q, r) is the sequence E, NE, NW, W, SW, SE:
\* (q+1,r), (q+1,r-1), (q,r-1), (q-1,r), (q-1,r+1), (q,r+1), whatever q and r.
C15_NeighborOrder ==
    "neighbors" \in hexCalled =>
        /\ Len(neighborsResult) = 6
        /\ neighborsResult[1] = <<hq + 1, hr>>
        /\ neighborsResult[2] = <<hq + 1, hr - 1>>
        /\ neighborsResult[3] = <<hq, hr - 1>>
        /\ neighborsResult[4] = <<hq - 1, hr>>
        /\ neighborsResult[5] = <<hq - 1, hr + 1>>
        /\ neighborsResult[6] = <<hq, hr + 1>>

C15_Witness ==
    /\ "neighbors" \in hexCalled
    /\ hq = 1
    /\ hr = -MaxCoord
    /\ neighborsResult[2] = <<2, -MaxCoord - 1>>

\* C16: hexDistance of integer coordinates is a non-negative integer: the
\* sum |q1-q2| + |q1+r1-q2-r2| + |r1-r2| is even and the result is its half.
C16_DistanceIsInteger ==
    "distance" \in hexCalled =>
        /\ distanceResult.den = 1
        /\ distanceResult.num >= 0
        /\ 2 * distanceResult.num =
              Abs(hq - hq2) + Abs(hq + hr - hq2 - hr2) + Abs(hr - hr2)

C16_Witness ==
    /\ "distance" \in hexCalled
    /\ hq = 1 /\ hr = 0 /\ hq2 = 0 /\ hr2 = -1
    /\ distanceResult = [num |-> 2, den |-> 1]

\* C17: hexDistance from a cell to itself is 0.
C17_DistanceToSelf ==
    ("distance" \in hexCalled /\ hq = hq2 /\ hr = hr2) =>
        distanceResult = [num |-> 0, den |-> 1]

C17_Witness ==
    /\ "distance" \in hexCalled
    /\ hq = MaxCoord /\ hq2 = MaxCoord
    /\ hr = -1 /\ hr2 = -1

\* C18: the y component of getHexPosition(q, r, size, h) is h whatever q, r
\* and size are, and getHexPosition(0, 0, size, h) is (0, h, 0).
C18_PositionHeight ==
    "position" \in hexCalled =>
        /\ positionResult.y = hexHeight
        /\ (hq = 0 /\ hr = 0) => positionResult = [x |-> 0, y |-> hexHeight, z |-> 0]

C18_Witness ==
    /\ "position" \in hexCalled
    /\ hq = 0 /\ hr = 0
    /\ hexSize = -MaxSize
    /\ hexHeight = MaxHeight

\* What C20 says of rendered frames, of the controller and of the parity of
\* presses: a frame rotates the fan mesh by the rotation speed exactly when
\* the flag is true and a fan mesh exists, toggle() flips the controller's
\* flag, and an even number of presses restores the flag.
FanFramesAndParity ==
    /\ fanOp = "render" =>
          /\ rotatedBy = (IF isRotating /\ fanMesh THEN rotationSpeed ELSE 0)
          /\ isRotating = wasRotating
    /\ fanOp = "update" =>
          /\ ctlRotatedBy = (IF ctlRotating /\ ctlFanMesh THEN ctlSpeed ELSE 0)
          /\ ctlRotating = ctlWasRotating
    /\ fanOp = "toggle" => ctlRotating = ~ctlWasRotating
    /\ pressParity = 0 => isRotating = TRUE
    /\ ctlParity = 0 => ctlRotating = ctlBase

\* C20 as stated: the flag starts true and every 'R' key press flips it;
\* frames rotate the fan exactly when the flag is true and a fan mesh exists;
\* an even number of presses restores the flag.
C20_EveryPressFlips ==
    /\ fanOp = "keyR" => isRotating = ~wasRotating
    /\ FanFramesAndParity

\* C20 amended: the 'R' key of app.ts flips the flag only if a fan mesh was
\* found and leaves it unchanged otherwise; the rest as stated.
C20_PressFlipsIfFanExists ==
    /\ fanOp = "keyR" => isRotating = (IF fanMesh THEN ~wasRotating ELSE wasRotating)
    /\ FanFramesAndParity

\* The second of two presses, with a fan mesh: the flag is back to true.
C20_Witness ==
    /\ fanMesh
    /\ fanOp = "keyR"
    /\ pressParity = 0
    /\ ~wasRotating
    /\ isRotating
    /\ fanRotation = rotationSpeed

SwitchOps == {"toggle", "toggleView", "setFixedView"}

C26_ButtonTextTracksMode ==
    camImpl = "controller" =>
        /\ (buttonText = "Switch to Free View") <=> isFixedView
        /\ (buttonText = "Return to Fixed View") <=> ~isFixedView
        /\ camParity = 0 =>
              /\ isFixedView = camBase
              /\ buttonText = (IF camBase THEN "Switch to Free View"
                               ELSE "Return to Fixed View")

\* setFixedView(false), then toggleView() twice.
C26_Witness ==
    /\ camImpl = "controller"
    /\ camOp = "toggleView"
    /\ camParity = 0
    /\ camBase = FALSE
    /\ ~isFixedView
    /\ buttonText = "Return to Fixed View"

ConfiguredCells ==
    {terrainConfig.coordinates[i] : i \in 1..Len(terrainConfig.coordinates)}

DistinctCoordinates ==
    \A i, j \in 1..Len(terrainConfig.coordinates) :
        i # j => terrainConfig.coordinates[i] # terrainConfig.coordinates[j]

C27_InstructionsMatchDocument ==
    /\ document \cap created = Stored
    /\ \A id1, id2 \in UIIds :
          (id1 # id2 /\ instructions[id1] # 0) => instructions[id1] # instructions[id2]
    /\ uiOp = "add" =>
          /\ uiRemoved = (IF uiBefore.instructions[uiId] # 0
                          THEN {uiBefore.instructions[uiId]} ELSE {})
          /\ uiRemoved \cap document = {}
          /\ instructions[uiId] \in document \ uiBefore.document
    /\ (uiOp = "remove" /\ uiBefore.instructions[uiId] = 0) =>
          /\ instructions = uiBefore.instructions
          /\ document = uiBefore.document
    /\ uiOp = "dispose" =>
          /\ document \cap created = {}
          /\ Stored = {}

\* An instruction replaced while a loading indicator is shown.
C27_Witness ==
    /\ uiOp = "add"
    /\ uiRemoved # {}
    /\ document \ created # {}
    /\ Cardinality(document \cap created) = 1

\* C23: every scale is in [0.001, 1] and never 0; in Constructed every mesh
\* is at scale 1 and in Deconstructed at 0.001; during a run at frame e the
\* scale is the linear interpolation at e / animationDuration between the
\* first and the last key of the run.
C23_ScaleWithinKeys ==
    /\ \A m \in windmillMeshes :
          scaling[m] # 0 /\ NearZero <= scaling[m] /\ scaling[m] <= FullScale
    /\ State = "Constructed" => AllScaled(FullScale)
    /\ State = "Deconstructed" => AllScaled(NearZero)
    /\ State = "Constructing" =>
          \A m \in windmillMeshes :
              animationDuration * scaling[m] =
                  (animationDuration - Elapsed) * NearZero + Elapsed * FullScale
    /\ State = "Deconstructing" =>
          \A m \in windmillMeshes :
              animationDuration * scaling[m] =
                  (animationDuration - Elapsed) * FullScale + Elapsed * NearZero

\* A third of a construct run that interrupted a deconstruct run.
C23_Witness ==
    /\ State = "Constructing"
    /\ runFrom = "Deconstructing"
    /\ Elapsed = 20
    /\ lastOp = "tick"
    /\ AllScaled(NearZero + 20 * (1000 - 1))

SettledOf(d) == IF d = "construct" THEN "Constructed" ELSE "Deconstructed"

\* C24: under a render loop that keeps rendering, a run does not last for
\* ever: again and again the animator is settled or a call has just been
\* made; and a run in direction d that no call interrupts reaches, at its
\* tick number animationDuration, the settled state of d.
C24_RunsSettle ==
    /\ []<>(Settled \/ lastOp # "tick")
    /\ \A d \in Groups :
          (isStarted[d] /\ lastOp = "tick") ~>
              \/ State = SettledOf(d) /\ lastOp = "tick" /\ ticks = animationDuration
              \/ lastOp # "tick"

\* A construct run that interrupted a deconstruct run, at its end.
C24_Witness ==
    /\ State = "Constructed"
    /\ runOp = "keyC"
    /\ runDir = "construct"
    /\ runFrom = "Deconstructing"
    /\ lastOp = "tick"
    /\ fromState = "Constructing"
    /\ ticks = animationDuration

\* C25: a tick in a settled state changes neither the state nor a scale, a
\* visibility, a frame or an observer, and invokes no callback; a settled
\* state is left only by a call that starts a run; and no operation changes
\* the set of meshes.
C25_SettledTickIsNoOp ==
    [][ /\ (lastOp' = "tick" /\ Settled) =>
              /\ UNCHANGED core
              /\ State' = State
              /\ stopNotified' = 0
              /\ endNotified' = 0
        /\ (Settled /\ ~Settled') => lastOp' \in StartOps
        /\ windmillMeshes' = windmillMeshes ]_vars

\* Two ticks after a run back to Constructed.
C25_Witness ==
    /\ State = "Constructed"
    /\ runOp = "keyC"
    /\ lastOp = "tick"
    /\ prevOp = "tick"
    /\ fromState = "Constructed"
    /\ ticks = animationDuration + 1
    /\ AllScaled(FullScale)
    /\ AllVisible

DefaultCells == {DEFAULT_HEX_COORDINATES[i] : i \in 1..Len(DEFAULT_HEX_COORDINATES)}

\* C29: DEFAULT_HEX_COORDINATES holds 19 pairwise distinct coordinates and is
\* exactly the set of cells at hexDistance at most 2 from (0, 0): the centre,
\* the 6 cells getHexNeighbors(0, 0) returns, and 12 cells at distance 2.
C29_DefaultIsTwoRings ==
    /\ Len(DEFAULT_HEX_COORDINATES) = 19
    /\ \A i, j \in 1..Len(DEFAULT_HEX_COORDINATES) :
          i # j => DEFAULT_HEX_COORDINATES[i] # DEFAULT_HEX_COORDINATES[j]
    /\ ("distance" \in hexCalled /\ hq2 = 0 /\ hr2 = 0) =>
          (<<hq, hr>> \in DefaultCells
              <=> (distanceResult.den = 1 /\ distanceResult.num <= 2))
    /\ ("neighbors" \in hexCalled /\ hq = 0 /\ hr = 0) =>
          {neighborsResult[i] : i \in 1..Len(neighborsResult)} =
              {c \in DefaultCells : hexDistance(c[1], c[2], 0, 0) = [num |-> 1, den |-> 1]}
    /\ <<0, 0>> \in DefaultCells
    /\ Cardinality({c \in DefaultCells :
                       hexDistance(c[1], c[2], 0, 0) = [num |-> 1, den |-> 1]}) = 6
    /\ Cardinality({c \in DefaultCells :
                       hexDistance(c[1], c[2], 0, 0) = [num |-> 2, den |-> 1]}) = 12

C29_Witness ==
    /\ hexCalled = {"distance", "neighbors"}
    /\ hq = 0 /\ hr = 0 /\ hq2 = 0 /\ hr2 = 0
    /\ distanceResult = [num |-> 0, den |-> 1]
    /\ Len(neighborsResult) = 6
    /\ neighborsResult[1] \in DefaultCells

\* What holds of every state while app.ts loads and afterwards.
LoadOrder ==
    /\ windmillImport # "notStarted" => (hexImport = "resolved" /\ tilesCreated)
    /\ handlers # {} => (windmillImport = "resolved" /\ ~caught /\ handlers = {"R", "C", "groups"})
    /\ (hexImport = "rejected" \/ windmillImport = "rejected") => (handlers = {} /\ caught)
    /\ handlers = {} =>
          /\ lastOp \in {"init", "tick"}
          /\ fanOp = "init"
          /\ windmillMeshes = {}
          /\ isConstructed /\ isRotating
          /\ \A g \in Groups : ~isStarted[g]
    /\ ENABLED ToggleCamera
    /\ ENABLED VerticalKey
    /\ ENABLED Tick

\* C30: the windmill import starts only once the hex import has resolved and
\* the tiles are created; the actions of 'R' and 'C' and the animation
\* groups exist only once the windmill import has resolved; a 'C' or 'R'
\* press before that changes no state; after a failed import no action of
\* 'R' or 'C' is ever registered, while frames are still rendered and the
\* camera button and the vertical keys still act.
C30_LoadOrdering ==
    /\ []LoadOrder
    /\ [][ /\ windmillImport' # "resolved" => UNCHANGED <<core, fanCore>>
           /\ windmillImport' = "pending" => (hexImport' = "resolved" /\ tilesCreated')
           /\ (hexImport = "rejected" \/ windmillImport = "rejected" \/ caught) =>
                 /\ handlers' = {}
                 /\ caught'
                 /\ hexImport' = hexImport
                 /\ windmillImport' = windmillImport ]_vars

\* The windmill import failed; since then 'R' and 'C' were pressed in vain,
\* the camera button was clicked, Space is held and frames were rendered.
C30_Witness ==
    /\ windmillImport = "rejected"
    /\ caught
    /\ ignored = {"R", "C"}
    /\ isFixedView # viewAtEnd
    /\ verticalKeys[SpaceKey]
    /\ lastOp = "tick"
    /\ ticks > ticksAtEnd

====
